---- MODULE Spec2Model ----
(***************************************************************************)
(* EMBERJsonlToCSV (ember_jsonl_to_csv.py): projection of EMBER JSON-lines *)
(* records onto a flat feature schema, written to a CSV file.              *)
(*                                                                         *)
(* JSON values are tagged records [t, v]:                                  *)
(*   "int"   v = <<n, 1>>            a Python int                          *)
(*   "float" v = <<n, d>>            a Python float, the rational n/d in   *)
(*                                   lowest terms; <<1,0>> is +inf,        *)
(*                                   <<-1,0>> is -inf and <<0,0>> is nan   *)
(*   "str"   v = a string                                                  *)
(*   "none"  v = <<>>                None (JSON null)                      *)
(*   "dict"  v = sequence of <<key, value>>, keys distinct, in the dict's  *)
(*                                   enumeration (insertion) order         *)
(*   "list"  v = sequence of values                                        *)
(* Finite float inputs are dyadic, so sums are exact and the one division  *)
(* of a mean is the float nearest the rational the model carries.          *)
(* json.loads also reads Infinity, -Infinity and NaN; they follow IEEE.    *)
(* JSON true/false are left out of the values.  An exception that          *)
(* leaves a method is modelled as such, without its type.  The output file *)
(* follows POSIX: os.remove of the file convert still holds open succeeds. *)
(***************************************************************************)
EXTENDS Integers, Sequences, FiniteSets, TLC

VARIABLES
    supplied,   \* the list handed to the constructor, as the caller wrote it
    features,   \* self._features
    pc,         \* "new", "ready", "converting", "done"
    jsonl,      \* the input file: [exists, lines]
    csv,        \* the output file: [exists, stale, header, rows]
    lineno,     \* lines of the input consumed by the running convert()
    result,     \* how convert() ended: "none", "True", "False", "raised"
    rpc,        \* resolver harness: "idle", "in", "out"
    json_data,  \* resolver harness: the record
    feature,    \* resolver harness: the feature name
    outcome     \* resolver harness: what the dispatch produced

vars == <<supplied, features, pc, jsonl, csv, lineno, result,
          rpc, json_data, feature, outcome>>

pipelineVars == <<supplied, features, pc, jsonl, csv, lineno, result>>
resolverVars == <<rpc, json_data, feature, outcome>>

----------------------------------------------------------------------------
(* Values *)

PyInt(n) == [t |-> "int", v |-> <<n, 1>>]
PyFloat(n, d) == [t |-> "float", v |-> <<n, d>>]
PyStr(s) == [t |-> "str", v |-> s]
None == [t |-> "none", v |-> <<>>]
PyDict(items) == [t |-> "dict", v |-> items]
PyList(items) == [t |-> "list", v |-> items]

PosInf == PyFloat(1, 0)     \* float('inf')
NegInf == PyFloat(-1, 0)    \* float('-inf')
PyNaN == PyFloat(0, 0)      \* float('nan')

IsNumber(x) == x.t \in {"int", "float"}

IsNaN(x) == x.v = <<0, 0>>
IsInf(x) == x.v[2] = 0 /\ x.v[1] # 0

Abs(n) == IF n < 0 THEN -n ELSE n

RECURSIVE GCD(_, _)
GCD(a, b) == IF b = 0 THEN a ELSE GCD(b, a % b)

\* the float with value n/d (d > 0), in lowest terms
MkFloat(n, d) == LET g == GCD(Abs(n), d) IN PyFloat(n \div g, d \div g)

\* a + b on numbers: int + int is an int, anything else a float; nan
\* absorbs, inf + -inf is nan, an infinity absorbs every finite number
NumAdd(a, b) ==
    IF a.t = "int" /\ b.t = "int" THEN PyInt(a.v[1] + b.v[1])
    ELSE IF IsNaN(a) \/ IsNaN(b) THEN PyNaN
    ELSE IF IsInf(a) /\ IsInf(b) THEN (IF a.v = b.v THEN a ELSE PyNaN)
    ELSE IF IsInf(a) THEN a
    ELSE IF IsInf(b) THEN b
    ELSE MkFloat(a.v[1] * b.v[2] + b.v[1] * a.v[2], a.v[2] * b.v[2])

\* a / n with n a positive int: true division, always a float
NumDiv(a, n) ==
    IF IsNaN(a) \/ IsInf(a) THEN PyFloat(a.v[1], 0)
    ELSE MkFloat(a.v[1], a.v[2] * n)

\* a < b on numbers: False whenever one side is nan; -inf < inf; an
\* infinity against a finite number falls out of the cross product
NumLt(a, b) ==
    IF IsNaN(a) \/ IsNaN(b) THEN FALSE
    ELSE IF IsInf(a) /\ IsInf(b) THEN a.v[1] < b.v[1]
    ELSE a.v[1] * b.v[2] < b.v[1] * a.v[2]

\* min(a, b) and max(a, b): the first argument unless the second is
\* strictly smaller / larger
PyMin(a, b) == IF NumLt(b, a) THEN b ELSE a
PyMax(a, b) == IF NumLt(a, b) THEN b ELSE a

----------------------------------------------------------------------------
(* Outcomes of a call: a (status, value) tuple, or an exception that       *)
(* leaves the callee.                                                      *)

Returned(status, value) == [raised |-> FALSE, status |-> status, value |-> value]
Raised == [raised |-> TRUE, status |-> FALSE, value |-> None]

----------------------------------------------------------------------------
(* _search_and_get *)

RECURSIVE SearchItems(_, _, _), SearchList(_, _, _)

\* the loop over json_data.items(), from entry i on
SearchItems(items, i, name) ==
    IF i > Len(items) THEN Returned(FALSE, None)
    ELSE LET key == items[i][1]
             value == items[i][2]
         IN IF key = name THEN Returned(TRUE, value)
            ELSE IF value.t = "dict"
            THEN LET r == SearchItems(value.v, 1, name)
                 IN IF r.status THEN r ELSE SearchItems(items, i + 1, name)
            ELSE IF value.t = "list"
            THEN LET r == SearchList(value.v, 1, name)
                 IN IF r.status THEN r ELSE SearchItems(items, i + 1, name)
            ELSE SearchItems(items, i + 1, name)

\* the loop over the items of a list value, from item j on
SearchList(list, j, name) ==
    IF j > Len(list) THEN Returned(FALSE, None)
    ELSE IF list[j].t = "dict"
    THEN LET r == SearchItems(list[j].v, 1, name)
         IN IF r.status THEN r ELSE SearchList(list, j + 1, name)
    ELSE SearchList(list, j + 1, name)

RECURSIVE FirstBranchItems(_, _, _), FirstBranchList(_, _, _)
\* the search with "return self._search_and_get(value, feature)" in place
\* of the test of status: the first branch it descends into decides
FirstBranchItems(items, i, name) ==
    IF i > Len(items) THEN Returned(FALSE, None)
    ELSE LET key == items[i][1]
             value == items[i][2]
         IN IF key = name THEN Returned(TRUE, value)
            ELSE IF value.t = "dict" THEN FirstBranchItems(value.v, 1, name)
            ELSE IF value.t = "list"
            THEN LET r == FirstBranchList(value.v, 1, name)
                 IN IF r.status THEN r ELSE FirstBranchItems(items, i + 1, name)
            ELSE FirstBranchItems(items, i + 1, name)

FirstBranchList(list, j, name) ==
    IF j > Len(list) THEN Returned(FALSE, None)
    ELSE IF list[j].t = "dict" THEN FirstBranchItems(list[j].v, 1, name)
    ELSE FirstBranchList(list, j + 1, name)

_search_and_get_first_branch(node, name) ==
    IF node.t # "dict" THEN Raised ELSE FirstBranchItems(node.v, 1, name)

\* a node without .items() raises AttributeError
_search_and_get(node, name) ==
    IF node.t # "dict" THEN Raised ELSE SearchItems(node.v, 1, name)

----------------------------------------------------------------------------
(* Python built-ins the extractors lean on *)

\* len(x) raises TypeError on a number or None
HasLen(x) == x.t \in {"dict", "list", "str"}

\* len(x) == 0, for x with a length
IsEmpty(x) == IF x.t = "str" THEN x.v = "" ELSE Len(x.v) = 0

\* key in d, for the item sequence of a dict
HasKey(items, key) == \E i \in 1..Len(items) : items[i][1] = key

\* d[key], for the item sequence of a dict that holds key
DictGet(items, key) ==
    items[CHOOSE i \in 1..Len(items) : items[i][1] = key][2]

Zero == PyFloat(0, 1)    \* the literal 0.0

----------------------------------------------------------------------------
(* Data-directory extractors.  All seven bodies have one shape:            *)
(*     status, datadirectories = self._search_and_get(json_data, ...)      *)
(*     if not status: return (False, None)                                 *)
(*     if len(datadirectories) == 0: return (True, 0.0)                    *)
(*     return (True, datadirectories[index][field])                        *)
(* index is the Python (0-based) index.                                    *)

\* the extractor body without "if len(datadirectories) == 0"
DataDirectoryFieldUnguarded(record, index, field) ==
    LET r == _search_and_get(record, "datadirectories")
    IN IF r.raised THEN Raised
       ELSE IF ~r.status THEN Returned(FALSE, None)
       ELSE LET datadirectories == r.value
            IN IF datadirectories.t # "list" THEN Raised
               ELSE IF index >= Len(datadirectories.v) THEN Raised
               ELSE LET entry == datadirectories.v[index + 1]
                    IN IF entry.t # "dict" THEN Raised
                       ELSE IF ~HasKey(entry.v, field) THEN Raised
                       ELSE Returned(TRUE, DictGet(entry.v, field))

DataDirectoryField(record, index, field) ==
    LET r == _search_and_get(record, "datadirectories")
    IN IF r.raised THEN Raised
       ELSE IF ~r.status THEN Returned(FALSE, None)
       ELSE LET datadirectories == r.value
            IN IF ~HasLen(datadirectories) THEN Raised            \* TypeError
               ELSE IF IsEmpty(datadirectories) THEN Returned(TRUE, Zero)
               \* a dict has no key 6 (KeyError); a str gives IndexError,
               \* or a character that cannot be indexed by a str (TypeError)
               ELSE IF datadirectories.t # "list" THEN Raised
               ELSE IF index >= Len(datadirectories.v) THEN Raised \* IndexError
               ELSE LET entry == datadirectories.v[index + 1]
                    IN IF entry.t # "dict" THEN Raised             \* TypeError
                       ELSE IF ~HasKey(entry.v, field) THEN Raised \* KeyError
                       ELSE Returned(TRUE, DictGet(entry.v, field))

\* the first def of _get_debug_size; the class body rebinds the name
\* twelve lines later, so no call ever reaches this one
_get_debug_size_shadowed(record) == DataDirectoryField(record, 6, "size")

\* the second def of _get_debug_size, the one the class ends up with
_get_debug_size(record) == DataDirectoryField(record, 6, "virtual_address")

_get_debug_rva(record) == DataDirectoryField(record, 6, "virtual_address")

\* iat_rva reading entry 11
_get_iat_rva_entry_11(record) == DataDirectoryField(record, 11, "virtual_address")

_get_iat_rva(record) == DataDirectoryField(record, 12, "virtual_address")

_get_export_size(record) == DataDirectoryField(record, 0, "size")

_get_export_rva(record) == DataDirectoryField(record, 0, "size")

_get_resource_size(record) == DataDirectoryField(record, 2, "size")

----------------------------------------------------------------------------
(* Section aggregates.  All nine bodies have one shape; they differ in the *)
(* per-section key ("entropy", "size", "vsize"), the start value and the   *)
(* combining step.                                                         *)

AggStart(op) ==
    CASE op = "mean" -> PyInt(0)
      [] op = "min" -> PosInf
      [] op = "max" -> NegInf

\* the combining step with min and max exchanged
AggStepExchanged(op, acc, value) ==
    CASE op = "mean" -> NumAdd(acc, value)
      [] op = "min" -> PyMax(acc, value)
      [] op = "max" -> PyMin(acc, value)

AggStep(op, acc, value) ==
    CASE op = "mean" -> NumAdd(acc, value)
      [] op = "min" -> PyMin(acc, value)
      [] op = "max" -> PyMax(acc, value)

RECURSIVE SectionsLoop(_, _, _, _, _)
\* the loop "for section in sections", from section i on
SectionsLoop(sections, i, key, op, acc) ==
    IF i > Len(sections)
    THEN Returned(TRUE, IF op = "mean" THEN NumDiv(acc, Len(sections)) ELSE acc)
    ELSE LET r == _search_and_get(sections[i], key)
         IN IF r.raised THEN Raised
            ELSE IF ~r.status THEN Returned(FALSE, None)
            \* 0 + x, min(inf, x), max(-inf, x) raise TypeError on a
            \* str, None, dict or list
            ELSE IF ~IsNumber(r.value) THEN Raised
            ELSE SectionsLoop(sections, i + 1, key, op, AggStep(op, acc, r.value))

SectionsAggregate(record, key, op) ==
    LET r == _search_and_get(record, "sections")
    IN IF r.raised THEN Raised
       ELSE IF ~r.status THEN Returned(FALSE, None)
       ELSE LET sections == r.value
            IN IF ~HasLen(sections) THEN Raised                   \* TypeError
               ELSE IF IsEmpty(sections) THEN Returned(TRUE, Zero)
               \* iterating a dict gives its keys, a str its characters:
               \* neither has .items() (AttributeError)
               ELSE IF sections.t # "list" THEN Raised
               ELSE SectionsLoop(sections.v, 1, key, op, AggStart(op))

_get_sections_mean_entropy(record) == SectionsAggregate(record, "entropy", "mean")
_get_sections_min_entropy(record) == SectionsAggregate(record, "entropy", "min")
_get_sections_max_entropy(record) == SectionsAggregate(record, "entropy", "max")
_get_sections_mean_raw_size(record) == SectionsAggregate(record, "size", "mean")
_get_sections_min_raw_size(record) == SectionsAggregate(record, "size", "min")
_get_sections_max_raw_size(record) == SectionsAggregate(record, "size", "max")
_get_sections_mean_virtual_size(record) == SectionsAggregate(record, "vsize", "mean")
_get_sections_min_virtual_size(record) == SectionsAggregate(record, "vsize", "min")
_get_sections_max_virtual_size(record) == SectionsAggregate(record, "vsize", "max")

----------------------------------------------------------------------------
(* convert: the if/elif chain that picks the extractor of one feature *)

\* the chain with the generic search tried first
ResolveGenericFirst(record, name) ==
    LET g == _search_and_get(record, name)
    IN IF ~g.raised /\ g.status THEN g
       ELSE CASE name = "sections_mean_entropy" -> _get_sections_mean_entropy(record)
              [] name = "sections_min_entropy" -> _get_sections_min_entropy(record)
              [] name = "sections_max_entropy" -> _get_sections_max_entropy(record)
              [] name = "sections_mean_rawsize" -> _get_sections_mean_raw_size(record)
              [] name = "sections_min_rawsize" -> _get_sections_min_raw_size(record)
              [] name = "sections_max_rawsize" -> _get_sections_max_raw_size(record)
              [] name = "sections_mean_virtualsize" -> _get_sections_mean_virtual_size(record)
              [] name = "sections_min_virtualsize" -> _get_sections_min_virtual_size(record)
              [] name = "sections_max_virtualsize" -> _get_sections_max_virtual_size(record)
              [] name = "debug_size" -> _get_debug_size(record)
              [] name = "debug_rva" -> _get_debug_rva(record)
              [] name = "iat_rva" -> _get_iat_rva(record)
              [] name = "export_size" -> _get_export_size(record)
              [] name = "export_rva" -> _get_export_rva(record)
              [] name = "resource_size" -> _get_resource_size(record)
              [] OTHER -> g

Resolve(record, name) ==
    CASE name = "sections_mean_entropy" -> _get_sections_mean_entropy(record)
      [] name = "sections_min_entropy" -> _get_sections_min_entropy(record)
      [] name = "sections_max_entropy" -> _get_sections_max_entropy(record)
      [] name = "sections_mean_rawsize" -> _get_sections_mean_raw_size(record)
      [] name = "sections_min_rawsize" -> _get_sections_min_raw_size(record)
      [] name = "sections_max_rawsize" -> _get_sections_max_raw_size(record)
      [] name = "sections_mean_virtualsize" -> _get_sections_mean_virtual_size(record)
      [] name = "sections_min_virtualsize" -> _get_sections_min_virtual_size(record)
      [] name = "sections_max_virtualsize" -> _get_sections_max_virtual_size(record)
      [] name = "debug_size" -> _get_debug_size(record)
      [] name = "debug_rva" -> _get_debug_rva(record)
      [] name = "iat_rva" -> _get_iat_rva(record)
      [] name = "export_size" -> _get_export_size(record)
      [] name = "export_rva" -> _get_export_rva(record)
      [] name = "resource_size" -> _get_resource_size(record)
      [] OTHER -> _search_and_get(record, name)

----------------------------------------------------------------------------
(* __init__ *)

Contains(seq, x) == \E i \in 1..Len(seq) : seq[i] = x

\* list.remove(x): drops the first occurrence of x
ListRemove(seq, x) ==
    LET i == CHOOSE k \in 1..Len(seq) :
                 seq[k] = x /\ \A m \in 1..(k - 1) : seq[m] # x
    IN SubSeq(seq, 1, i - 1) \o SubSeq(seq, i + 1, Len(seq))

\* the constructor moving "label" to the end only when the list holds it
__init__label_if_listed(list) ==
    IF Contains(list, "label") THEN Append(ListRemove(list, "label"), "label")
    ELSE list

\* the value bound to self._features
__init__(list) ==
    LET target == "label"
        removed == IF Contains(list, target) THEN ListRemove(list, target) ELSE list
    IN Append(removed, target)

----------------------------------------------------------------------------
(* convert: one record *)

\* the test with isinstance(value, list) left out
IsCompositeDictOnly(value) == value.t = "dict"

IsComposite(value) == value.t \in {"dict", "list"}

RECURSIVE ProjectFrom(_, _, _, _)
\* the loop "for feature in self._features", from position j on, with the
\* dict data built so far.  Ends in
\*   [kind |-> "row", data |-> ...]   every feature was stored
\*   [kind |-> "False", ...]          os.remove(csv_file_path); return False
\*   [kind |-> "raised", ...]         an extractor raised
ProjectFrom(record, schema, j, data) ==
    IF j > Len(schema) THEN [kind |-> "row", data |-> data]
    ELSE LET name == schema[j]
             r == Resolve(record, name)
         IN IF r.raised THEN [kind |-> "raised", data |-> data]
            ELSE IF ~r.status THEN [kind |-> "False", data |-> data]
            ELSE IF IsComposite(r.value) THEN [kind |-> "False", data |-> data]
            ELSE ProjectFrom(record, schema, j + 1,
                     [n \in (DOMAIN data) \cup {name} |->
                         IF n = name THEN r.value ELSE data[n]])

EmptyData == [n \in {} |-> None]

Project(record, schema) == ProjectFrom(record, schema, 1, EmptyData)

\* csv.DictWriter.writerow: the values of data in fieldnames order
RowOf(data, fieldnames) == [k \in 1..Len(fieldnames) |-> data[fieldnames[k]]]

----------------------------------------------------------------------------
(* Inputs of the conversion pipeline *)

MaxSchemaLen == 2    \* longest feature list handed to the constructor
MaxLines == 2        \* longest input file

SeqsUpTo(S, n) == UNION {[1..k -> S] : k \in 0..n}

SchemaNames ==
    {"label", "export_size", "iat_rva", "sections_mean_entropy",
     "sections_max_entropy", "sections"}

\* one data-directory entry, as EMBER writes it
DirEntry(name, size, va) ==
    PyDict(<< <<"name", PyStr(name)>>, <<"size", size>>, <<"virtual_address", va>> >>)

\* one section entry, as EMBER writes it
SectionEntry(size, entropy, vsize) ==
    PyDict(<< <<"name", PyStr(".text")>>, <<"size", size>>, <<"entropy", entropy>>,
              <<"vsize", vsize>>, <<"props", PyList(<<PyStr("CNT_CODE")>>)>> >>)

\* a thirteen-entry table whose entry i (0-based) has size 10 + i and
\* virtual_address 1 + i
FullTable == [i \in 1..13 |-> DirEntry("DIR", PyInt(9 + i), PyInt(i))]

TwoSections ==
    << SectionEntry(PyInt(512), PyFloat(1, 1), PyInt(600)),
       SectionEntry(PyInt(0), PyFloat(7, 2), PyInt(4096)) >>

RecFull ==
    PyDict(<< <<"sha256", PyStr("ab")>>, <<"label", PyInt(1)>>,
              <<"section", PyDict(<< <<"entry", PyStr(".text")>>,
                                     <<"sections", PyList(TwoSections)>> >>)>>,
              <<"datadirectories", PyList(FullTable)>> >>)

RecEmpty ==
    PyDict(<< <<"label", PyInt(0)>>,
              <<"section", PyDict(<< <<"entry", PyStr("")>>,
                                     <<"sections", PyList(<<>>)>> >>)>>,
              <<"datadirectories", PyList(<<>>)>> >>)

\* the records of the end-to-end scenarios 2 and 3: no "label" key
RecNoLabelEmpty == PyDict(<< <<"sections", PyList(<<>>)>> >>)
RecNoLabelTwo == PyDict(<< <<"sections", PyList(TwoSections)>> >>)

\* a one-entry table whose size is a list: iat_rva indexes past the end,
\* export_size resolves to a composite
RecShort ==
    PyDict(<< <<"label", PyInt(0)>>,
              <<"sections", PyList(<<>>)>>,
              <<"datadirectories",
                PyList(<< DirEntry("EXPORT_TABLE", PyList(<<PyInt(10)>>), PyInt(1)) >>)>> >>)

\* a line of the input file: a parsed record, or text json.loads rejects
Parsed(record) == [ok |-> TRUE, value |-> record]
Unparseable == [ok |-> FALSE, value |-> None]

LineCatalogue ==
    {Parsed(RecFull), Parsed(RecEmpty), Parsed(RecNoLabelEmpty),
     Parsed(RecNoLabelTwo), Parsed(RecShort), Unparseable}

NoFile == [exists |-> FALSE, lines |-> <<>>]
NoCsv == [exists |-> FALSE, stale |-> FALSE, header |-> <<>>, rows |-> <<>>]
\* an output file left by an earlier run
StaleCsv == [exists |-> TRUE, stale |-> TRUE, header |-> <<"label">>, rows |-> <<>>]

----------------------------------------------------------------------------
(* The conversion pipeline *)

Idle == /\ rpc = "idle"
        /\ json_data = None
        /\ feature = ""
        /\ outcome = Returned(FALSE, None)

Init ==
    /\ pc = "new"
    /\ supplied = <<>>
    /\ features = <<>>
    /\ \/ /\ jsonl \in {[exists |-> TRUE, lines |-> l] :
                            l \in SeqsUpTo(LineCatalogue, MaxLines)}
          /\ csv = NoCsv
       \/ /\ jsonl \in {NoFile, [exists |-> TRUE, lines |-> <<Parsed(RecFull)>>]}
          /\ csv \in {NoCsv, StaleCsv}
    /\ lineno = 0
    /\ result = "none"
    /\ Idle

\* g = EMBERJsonlToCSV(list)
Construct ==
    /\ pc = "new"
    /\ \E list \in SeqsUpTo(SchemaNames, MaxSchemaLen) :
          /\ supplied' = list
          /\ features' = __init__(list)
    /\ pc' = "ready"
    /\ UNCHANGED <<jsonl, csv, lineno, result, resolverVars>>

\* convert, up to the first line: the two path checks, open(csv, 'w'),
\* writeheader
ConvertBegin ==
    /\ pc = "ready"
    /\ IF ~jsonl.exists \/ csv.exists
       THEN /\ result' = "False"
            /\ pc' = "done"
            /\ UNCHANGED csv
       ELSE /\ csv' = [exists |-> TRUE, stale |-> FALSE,
                       header |-> features, rows |-> <<>>]
            /\ pc' = "converting"
            /\ UNCHANGED result
    /\ UNCHANGED <<supplied, features, jsonl, lineno, resolverVars>>

\* convert: one pass of "for line in file"
ConvertLine ==
    /\ pc = "converting"
    /\ lineno < Len(jsonl.lines)
    /\ LET line == jsonl.lines[lineno + 1]
       IN IF ~line.ok
          \* the handler calls e.msg, a str: TypeError leaves convert
          \* before os.remove; the with block closes the file
          THEN /\ result' = "raised"
               /\ pc' = "done"
               /\ UNCHANGED <<csv, lineno>>
          ELSE LET p == Project(line.value, features)
               IN CASE p.kind = "row" ->
                         /\ csv' = [csv EXCEPT !.rows =
                                       Append(@, RowOf(p.data, features))]
                         /\ lineno' = lineno + 1
                         /\ UNCHANGED <<pc, result>>
                    [] p.kind = "False" ->
                         /\ csv' = NoCsv
                         /\ result' = "False"
                         /\ pc' = "done"
                         /\ UNCHANGED lineno
                    [] p.kind = "raised" ->
                         /\ result' = "raised"
                         /\ pc' = "done"
                         /\ UNCHANGED <<csv, lineno>>
    /\ UNCHANGED <<supplied, features, jsonl, resolverVars>>

\* convert: the input is exhausted
ConvertEnd ==
    /\ pc = "converting"
    /\ lineno = Len(jsonl.lines)
    /\ result' = "True"
    /\ pc' = "done"
    /\ UNCHANGED <<supplied, features, jsonl, csv, lineno, resolverVars>>

Next == Construct \/ ConvertBegin \/ ConvertLine \/ ConvertEnd

Spec == Init /\ [][Next]_vars

----------------------------------------------------------------------------
(* Inputs of the resolver harness: one record and one feature name *)

MaxVal == 2          \* size and virtual_address of the read entries: 1..MaxVal
MaxExtraDirs == 1    \* table entries beyond the thirteenth
MaxSections == 3     \* longest section list
MaxListLen == 2      \* longest list inside a search tree

DirNames ==
    {"debug_size", "debug_rva", "iat_rva", "export_size", "export_rva",
     "resource_size"}

SectionNames ==
    {"sections_mean_entropy", "sections_min_entropy", "sections_max_entropy",
     "sections_mean_rawsize", "sections_min_rawsize", "sections_max_rawsize",
     "sections_mean_virtualsize", "sections_min_virtualsize",
     "sections_max_virtualsize"}

SpecialisedNames == DirNames \cup SectionNames

Pairs == (1..MaxVal) \X (1..MaxVal)

\* a table of n entries: entries 0, 2, 6 and 12 carry the pairs e0, e2, e6
\* and e12 as <<size, virtual_address>>, entry i of the others carries
\* <<100 + i, 200 + i>>
Table(n, e0, e2, e6, e12) ==
    [i \in 1..n |->
        CASE i = 1 -> DirEntry("EXPORT_TABLE", PyInt(e0[1]), PyInt(e0[2]))
          [] i = 3 -> DirEntry("RESOURCE_TABLE", PyInt(e2[1]), PyInt(e2[2]))
          [] i = 7 -> DirEntry("DEBUG", PyInt(e6[1]), PyInt(e6[2]))
          [] i = 13 -> DirEntry("IAT", PyInt(e12[1]), PyInt(e12[2]))
          [] OTHER -> DirEntry("DIR", PyInt(99 + i), PyInt(199 + i))]

DirRecord(table) ==
    PyDict(<< <<"label", PyInt(1)>>, <<"datadirectories", PyList(table)>> >>)

DirRecords ==
    {DirRecord(Table(n, e0, e2, e6, e12)) :
        n \in {0, 1, 7} \cup (13..(13 + MaxExtraDirs)),
        e0 \in Pairs, e2 \in Pairs, e6 \in Pairs, e12 \in Pairs}

\* tables and section lists that are not what EMBER writes
OddRecords ==
    { PyDict(<< <<"datadirectories", PyInt(3)>>, <<"sections", None>> >>),
      PyDict(<< <<"datadirectories", PyStr("")>>, <<"sections", PyStr("")>> >>),
      PyDict(<< <<"datadirectories", PyStr("ab")>>, <<"sections", PyStr("ab")>> >>),
      PyDict(<< <<"datadirectories", PyDict(<<>>)>>, <<"sections", PyDict(<<>>)>> >>),
      PyDict(<< <<"datadirectories", PyDict(<< <<"size", PyInt(1)>> >>)>>,
                <<"sections", PyDict(<< <<"entropy", PyInt(1)>> >>)>> >>),
      PyDict(<< <<"datadirectories",
                  PyList([i \in 1..13 |->
                            PyDict(<< <<"virtual_address", PyInt(i)>> >>)])>>,
                <<"sections", PyList(<<PyInt(1)>>)>> >>),
      PyDict(<< <<"datadirectories", PyList([i \in 1..13 |-> PyInt(i)])>>,
                <<"sections", PyList(<<PyDict(<< <<"entropy", None>>,
                    <<"size", PyStr("big")>>, <<"vsize", PyList(<<>>)>> >>)>>)>> >>),
      PyDict(<< <<"label", PyInt(0)>> >>),
      PyList(<<PyInt(1)>>) }

\* the section entries a list is drawn from
SectionPool ==
    { SectionEntry(PyInt(512), PyFloat(1, 1), PyInt(600)),
      SectionEntry(PyInt(0), PyFloat(7, 2), PyInt(4096)),
      SectionEntry(PyInt(1024), PyInt(2), PyFloat(601, 1)),
      \* the three keys sit one level down and, for entropy, once more
      \* behind it at the entry's own level
      PyDict(<< <<"name", PyStr(".rsrc")>>,
                <<"stats", PyDict(<< <<"entropy", PyFloat(13, 2)>>,
                                     <<"size", PyInt(3)>>,
                                     <<"vsize", PyInt(5)>> >>)>>,
                <<"entropy", PyFloat(1, 2)>> >>),
      \* Infinity, -Infinity and NaN, as json.loads reads them
      SectionEntry(NegInf, PosInf, PyNaN),
      SectionEntry(PyNaN, NegInf, PosInf),
      SectionEntry(PosInf, PyNaN, NegInf),
      \* no entropy
      PyDict(<< <<"name", PyStr(".bss")>>, <<"size", PyInt(0)>>,
                <<"vsize", PyInt(64)>> >>),
      \* an entropy that is no number
      PyDict(<< <<"name", PyStr(".x")>>, <<"size", PyInt(8)>>,
                <<"entropy", PyStr("high")>>, <<"vsize", PyInt(8)>> >>) }

SectionRecord(list) ==
    PyDict(<< <<"label", PyInt(0)>>,
              <<"section", PyDict(<< <<"entry", PyStr(".text")>>,
                                     <<"sections", PyList(list)>> >>)>> >>)

SectionRecords == {SectionRecord(l) : l \in SeqsUpTo(SectionPool, MaxSections)}

\* search trees over the keys "a" and "x"
TreeKeys == {"a", "x"}
TreeLeaves == {PyInt(1), PyInt(2)}

\* the dicts of at most two entries with distinct keys and values in V
DictsOver(V) ==
    {PyDict(<<>>)}
    \cup {PyDict(<< <<k, v>> >>) : k \in TreeKeys, v \in V}
    \cup {PyDict(<< <<k[1], v1>>, <<k[2], v2>> >>) :
             k \in {<<"a", "x">>, <<"x", "a">>}, v1 \in V, v2 \in V}

TreeListPool ==
    {PyInt(1), PyDict(<<>>), PyDict(<< <<"x", PyInt(1)>> >>),
     PyDict(<< <<"a", PyInt(1)>> >>)}

TreeValues ==
    TreeLeaves \cup DictsOver(TreeLeaves)
        \cup {PyList(l) : l \in SeqsUpTo(TreeListPool, MaxListLen)}

TreeRecords == DictsOver(TreeValues)

TreeNames == {"x", "z"}

\* records that hold a key named like a specialised feature, before,
\* behind or below the containers the extractor reads, or without them
Verbatim == PyStr("verbatim")

Containers ==
    << <<"section", PyDict(<< <<"sections", PyList(TwoSections)>> >>)>>,
       <<"datadirectories", PyList(FullTable)>> >>

ShadowRecords ==
    UNION {{ PyDict(<< <<n, Verbatim>> >> \o Containers),
             PyDict(Containers \o << <<n, Verbatim>> >>),
             PyDict(<< <<"header", PyDict(<< <<n, Verbatim>> >>)>> >> \o Containers),
             PyDict(<< <<n, Verbatim>> >>) } :
           n \in SpecialisedNames \cup {"label"}}

ShadowNames == SpecialisedNames \cup {"label", "sections", "missing"}

----------------------------------------------------------------------------
(* The resolver harness: one dispatch of convert's if/elif chain, or one   *)
(* call of _search_and_get, on a record                                    *)

InitResolve ==
    /\ pc = "new"
    /\ supplied = <<>>
    /\ features = <<>>
    /\ jsonl = NoFile
    /\ csv = NoCsv
    /\ lineno = 0
    /\ result = "none"
    /\ rpc = "in"
    /\ outcome = Returned(FALSE, None)
    /\ \/ json_data \in DirRecords /\ feature \in DirNames
       \/ json_data \in SectionRecords /\ feature \in SectionNames
       \/ json_data \in OddRecords /\ feature \in SpecialisedNames \cup {"label"}
       \/ json_data \in TreeRecords /\ feature \in TreeNames
       \/ json_data \in ShadowRecords /\ feature \in ShadowNames

\* status, value = <the extractor convert picks for feature>(json_data)
ApplyResolve ==
    /\ rpc = "in"
    /\ outcome' = Resolve(json_data, feature)
    /\ rpc' = "out"
    /\ UNCHANGED <<json_data, feature, pipelineVars>>

\* status, value = self._search_and_get(json_data, feature)
ApplySearch ==
    /\ rpc = "in"
    /\ outcome' = _search_and_get(json_data, feature)
    /\ rpc' = "searched"
    /\ UNCHANGED <<json_data, feature, pipelineVars>>

NextResolve == ApplyResolve \/ ApplySearch

SpecResolve == InitResolve /\ [][NextResolve]_vars

----------------------------------------------------------------------------
(* Vocabulary of the statements about the pipeline *)

Count(seq, x) == Cardinality({i \in 1..Len(seq) : seq[i] = x})

Without(seq, x) == SelectSeq(seq, LAMBDA e : e # x)

\* convert() got as far as opening its own output file
Started == jsonl.exists /\ ~(csv.exists /\ csv.stale)

\* name resolves on record to a value that may be stored in a row
ScalarOn(record, name) ==
    LET r == Resolve(record, name)
    IN ~r.raised /\ r.status /\ r.value.t \notin {"dict", "list"}

\* name resolves on record to a mapping or a sequence
CompositeOn(record, name) ==
    LET r == Resolve(record, name)
    IN ~r.raised /\ r.status /\ r.value.t \in {"dict", "list"}

\* the values of the names of schema on record, in order
ValuesOn(record, schema) ==
    [k \in 1..Len(schema) |-> Resolve(record, schema[k]).value]

AllLinesParse == \A k \in 1..Len(jsonl.lines) : jsonl.lines[k].ok

----------------------------------------------------------------------------
\* C2: whenever "label" occurs in the list handed to the constructor, at
\* any position and any number of times, self._features holds "label"
\* exactly once, as its last entry, and the other names in their original
\* relative order.
C2_LabelOnceAndLast ==
    (pc # "new" /\ Contains(supplied, "label")) =>
        /\ Count(features, "label") = 1
        /\ features[Len(features)] = "label"
        /\ Without(features, "label") = Without(supplied, "label")

----------------------------------------------------------------------------
\* C3: once convert() has ended, either it returned True and every input
\* line is one fully populated row of the output file, or the output file
\* it opened does not exist.
C3_AllOrNothing ==
    (pc = "done" /\ Started) =>
        \/ ~csv.exists
        \/ /\ result = "True"
           /\ Len(csv.rows) = Len(jsonl.lines)
           /\ \A k \in 1..Len(csv.rows) : Len(csv.rows[k]) = Len(csv.header)

----------------------------------------------------------------------------
\* C4 as stated: for a supplied list without "label", when every listed
\* feature resolves to a scalar on every record, convert() succeeds and each
\* row has exactly one column per listed feature, in the listed order
\* (scenario 2: sections [] gives [0.0]; scenario 3: entropies 1.0 and 3.5
\* give [3.5]).
C4_OneColumnPerListedFeature ==
    (/\ pc = "done" /\ Started
     /\ ~Contains(supplied, "label")
     /\ AllLinesParse
     /\ \A k \in 1..Len(jsonl.lines), j \in 1..Len(supplied) :
            ScalarOn(jsonl.lines[k].value, supplied[j]))
    => /\ result = "True"
       /\ csv.exists
       /\ Len(csv.rows) = Len(jsonl.lines)
       /\ \A k \in 1..Len(csv.rows) :
              csv.rows[k] = ValuesOn(jsonl.lines[k].value, supplied)

\* C4 amended: the constructor appends "label" to a list that lacks it, so
\* when every listed feature and "label" resolve to a scalar on every
\* record, convert() succeeds and each row holds one column per listed
\* feature, in the listed order, followed by the label column; and on a
\* record without a "label" key (the records of scenarios 2 and 3) convert()
\* returns False and leaves no output file.
C4_ListedFeaturesThenLabel ==
    (/\ pc = "done" /\ Started
     /\ ~Contains(supplied, "label")
     /\ AllLinesParse)
    => /\ csv.exists => csv.header = Append(supplied, "label")
       /\ (\A k \in 1..Len(jsonl.lines), j \in 1..(Len(supplied) + 1) :
               ScalarOn(jsonl.lines[k].value, Append(supplied, "label")[j]))
          => /\ result = "True"
             /\ csv.exists
             /\ Len(csv.rows) = Len(jsonl.lines)
             /\ \A k \in 1..Len(csv.rows) :
                    csv.rows[k] =
                        ValuesOn(jsonl.lines[k].value, supplied)
                            \o <<Resolve(jsonl.lines[k].value, "label").value>>
       /\ (/\ jsonl.lines # <<>>
           /\ \A j \in 1..Len(supplied) : ScalarOn(jsonl.lines[1].value, supplied[j])
           /\ ~Resolve(jsonl.lines[1].value, "label").status)
          => (result = "False" /\ ~csv.exists)

\* scenario 3 with a labelled record: the row is [3.5, 1]
C4_Witness ==
    /\ pc = "done"
    /\ supplied = <<"sections_max_entropy">>
    /\ jsonl.lines = <<Parsed(RecFull)>>
    /\ result = "True"
    /\ csv.rows = << <<PyFloat(7, 2), PyInt(1)>> >>

----------------------------------------------------------------------------
\* C9: when convert() reaches a feature whose resolved value is a mapping
\* or a sequence (no earlier feature of that record having raised), it
\* returns False and no output file is left, so no row of that record is
\* written; and no row ever holds a mapping or a sequence.
C9_CompositeFailsProjection ==
    /\ (csv.exists /\ ~csv.stale) =>
           \A k \in 1..Len(csv.rows) : \A j \in 1..Len(csv.rows[k]) :
               csv.rows[k][j].t \notin {"dict", "list"}
    /\ (/\ pc = "done" /\ Started
        /\ lineno < Len(jsonl.lines)
        /\ jsonl.lines[lineno + 1].ok
        /\ \E j \in 1..Len(features) :
              /\ CompositeOn(jsonl.lines[lineno + 1].value, features[j])
              /\ \A m \in 1..(j - 1) :
                     ~Resolve(jsonl.lines[lineno + 1].value, features[m]).raised)
       => (result = "False" /\ ~csv.exists)

\* the generic search hands back the "sections" list of the second record,
\* after the first record was written
C9_Witness ==
    /\ pc = "done"
    /\ features = <<"sections", "label">>
    /\ jsonl.lines = <<Parsed(RecEmpty), Parsed(RecFull)>>
    /\ lineno = 0
    /\ result = "False"
    /\ ~csv.exists

----------------------------------------------------------------------------
(* Vocabulary of the statements about the resolver: the traversal the      *)
(* search is specified by, written out as the list of the entries it       *)
(* meets.                                                                  *)

RECURSIVE DictVisit(_, _), ListVisit(_, _)

\* the entries met from entry i of a mapping on: the entry itself, then
\* what lies below its value, then the later entries
DictVisit(items, i) ==
    IF i > Len(items) THEN <<>>
    ELSE LET below ==
                 CASE items[i][2].t = "dict" -> DictVisit(items[i][2].v, 1)
                   [] items[i][2].t = "list" -> ListVisit(items[i][2].v, 1)
                   [] OTHER -> <<>>
         IN <<items[i]>> \o below \o DictVisit(items, i + 1)

\* the entries met from element j of a sequence on: those of each
\* mapping-typed element, in order
ListVisit(list, j) ==
    IF j > Len(list) THEN <<>>
    ELSE (IF list[j].t = "dict" THEN DictVisit(list[j].v, 1) ELSE <<>>)
             \o ListVisit(list, j + 1)

PreOrder(node) == DictVisit(node.v, 1)

\* the first entry of the traversal of node whose key is name, as the
\* search reports it
FirstInPreOrder(node, name) ==
    LET met == PreOrder(node)
        hits == {i \in 1..Len(met) : met[i][1] = name}
    IN IF hits = {} THEN Returned(FALSE, None)
       ELSE Returned(TRUE, met[CHOOSE i \in hits : \A m \in hits : i <= m][2])

Reaches(node, name) == node.t = "dict" /\ FirstInPreOrder(node, name).status

FirstMet(node, name) == FirstInPreOrder(node, name).value

\* "datadirectories" resolves to a sequence of at least n well-formed
\* entries
WellFormedTable(record, n) ==
    /\ Reaches(record, "datadirectories")
    /\ LET dd == FirstMet(record, "datadirectories")
       IN /\ dd.t = "list"
          /\ Len(dd.v) >= n
          /\ \A i \in 1..Len(dd.v) :
                 /\ dd.v[i].t = "dict"
                 /\ HasKey(dd.v[i].v, "size")
                 /\ HasKey(dd.v[i].v, "virtual_address")

\* the field of entry index (0-based) of the table of record
TableField(record, index, field) ==
    DictGet(FirstMet(record, "datadirectories").v[index + 1].v, field)

\* key resolves to the empty sequence
EmptyList(record, key) ==
    Reaches(record, key) /\ FirstMet(record, key) = PyList(<<>>)

----------------------------------------------------------------------------
\* C1: on a record whose "datadirectories" is a sequence of at least 13
\* well-formed entries, debug_size yields entry 6's size and debug_rva
\* yields entry 6's virtual_address.
C1_DebugReadsEntrySix ==
    (/\ rpc = "out"
     /\ feature \in {"debug_size", "debug_rva"}
     /\ WellFormedTable(json_data, 13)) =>
        /\ feature = "debug_size" =>
               outcome = Returned(TRUE, TableField(json_data, 6, "size"))
        /\ feature = "debug_rva" =>
               outcome = Returned(TRUE, TableField(json_data, 6, "virtual_address"))

----------------------------------------------------------------------------
\* C5: on a record whose "datadirectories" is a sequence of at least 13
\* well-formed entries, export_size yields entry 0's size, resource_size
\* yields entry 2's size and iat_rva yields entry 12's virtual_address.
C5_FixedIndexLookups ==
    (/\ rpc = "out"
     /\ feature \in {"export_size", "resource_size", "iat_rva"}
     /\ WellFormedTable(json_data, 13)) =>
        /\ feature = "export_size" =>
               outcome = Returned(TRUE, TableField(json_data, 0, "size"))
        /\ feature = "resource_size" =>
               outcome = Returned(TRUE, TableField(json_data, 2, "size"))
        /\ feature = "iat_rva" =>
               outcome = Returned(TRUE, TableField(json_data, 12, "virtual_address"))

\* a fourteen-entry table in which the three values read differ from
\* their neighbours in the same entry
C5_Witness ==
    /\ rpc = "out"
    /\ feature = "iat_rva"
    /\ json_data = DirRecord(Table(14, <<1, 2>>, <<2, 1>>, <<1, 2>>, <<1, 2>>))
    /\ outcome = Returned(TRUE, PyInt(2))

----------------------------------------------------------------------------
\* C6: a container that is present and empty yields 0.0: when "sections"
\* resolves to the empty sequence each of the nine section aggregates
\* returns (True, 0.0), and when "datadirectories" resolves to the empty
\* sequence each of the six data-directory extractors returns (True, 0.0).
C6_EmptyContainerYieldsZero ==
    rpc = "out" =>
        /\ (feature \in SectionNames /\ EmptyList(json_data, "sections")) =>
               outcome = Returned(TRUE, PyFloat(0, 1))
        /\ (feature \in DirNames /\ EmptyList(json_data, "datadirectories")) =>
               outcome = Returned(TRUE, PyFloat(0, 1))

C6_Witness ==
    /\ rpc = "out"
    /\ feature = "sections_min_virtualsize"
    /\ json_data = SectionRecord(<<>>)
    /\ outcome = Returned(TRUE, PyFloat(0, 1))

----------------------------------------------------------------------------
\* Vocabulary of C7.  An entry's entropy is the one the search scoped to
\* that entry meets first; it is carried as its pair <<n, d>>.

\* "sections" resolves to a non-empty sequence whose every entry has an
\* entropy of type int or float
NumericEntropies(record) ==
    /\ Reaches(record, "sections")
    /\ LET sections == FirstMet(record, "sections")
       IN /\ sections.t = "list"
          /\ Len(sections.v) > 0
          /\ \A i \in 1..Len(sections.v) :
                 /\ Reaches(sections.v[i], "entropy")
                 /\ FirstMet(sections.v[i], "entropy").t \in {"int", "float"}

Entropies(record) ==
    LET sections == FirstMet(record, "sections").v
    IN [i \in 1..Len(sections) |-> FirstMet(sections[i], "entropy").v]

NoNaN(q) == \A i \in 1..Len(q) : q[i] # <<0, 0>>

RECURSIVE RatSum(_, _)
\* the sum of the finite fractions among q[i..], as an unreduced pair
RatSum(q, i) ==
    IF i > Len(q) THEN <<0, 1>>
    ELSE LET rest == RatSum(q, i + 1)
         IN IF q[i][2] = 0 THEN rest
            ELSE <<q[i][1] * rest[2] + rest[1] * q[i][2], q[i][2] * rest[2]>>

\* a = b and a < b on the extended reals; nan equals and precedes nothing
ExtEq(a, b) ==
    IF a[2] = 0 \/ b[2] = 0 THEN a = b /\ a # <<0, 0>>
    ELSE a[1] * b[2] = b[1] * a[2]

ExtLt(a, b) ==
    CASE a = <<0, 0>> \/ b = <<0, 0>> -> FALSE
      [] a[2] = 0 /\ b[2] = 0 -> a[1] < b[1]
      [] a[2] = 0 -> a[1] < 0
      [] b[2] = 0 -> b[1] > 0
      [] OTHER -> a[1] * b[2] < b[1] * a[2]

\* got is the sum of q divided by its length, in IEEE arithmetic: nan
\* when q holds a nan or infinities of both signs, the infinity when it
\* holds infinities of one sign
IsMean(got, q) ==
    LET nan == \E i \in 1..Len(q) : q[i] = <<0, 0>>
        pos == \E i \in 1..Len(q) : q[i] = <<1, 0>>
        neg == \E i \in 1..Len(q) : q[i] = <<-1, 0>>
    IN CASE nan \/ (pos /\ neg) -> got = <<0, 0>>
         [] pos -> got = <<1, 0>>
         [] neg -> got = <<-1, 0>>
         [] OTHER -> got[2] > 0 /\ got[1] * Len(q) * RatSum(q, 1)[2]
                                      = RatSum(q, 1)[1] * got[2]

\* got is an entry of q that no entry precedes / that precedes no entry
IsMin(got, q) ==
    /\ \E i \in 1..Len(q) : ExtEq(got, q[i])
    /\ \A i \in 1..Len(q) : ~ExtLt(q[i], got)

IsMax(got, q) ==
    /\ \E i \in 1..Len(q) : ExtEq(got, q[i])
    /\ \A i \in 1..Len(q) : ~ExtLt(got, q[i])

EntropyAggregatesOn(q) ==
    LET got == outcome.value.v
    IN /\ ~outcome.raised /\ outcome.status
       /\ feature = "sections_mean_entropy" =>
              outcome.value.t = "float" /\ IsMean(got, q)
       /\ feature = "sections_min_entropy" => IsMin(got, q)
       /\ feature = "sections_max_entropy" => IsMax(got, q)

EntropyFeature ==
    /\ rpc = "out"
    /\ feature \in {"sections_mean_entropy", "sections_min_entropy",
                    "sections_max_entropy"}

\* C7 as stated: on a non-empty section sequence whose every entry has a
\* numeric entropy, sections_mean_entropy is the sum of the per-entry
\* entropies divided by their number, sections_min_entropy their minimum
\* and sections_max_entropy their maximum; the result is never the
\* +inf / -inf the running minimum / maximum starts from when no entry
\* holds it.
C7_EntropyAggregatesAnyNumber ==
    (EntropyFeature /\ NumericEntropies(json_data)) =>
        EntropyAggregatesOn(Entropies(json_data))

\* C7 amended: the same, on a non-empty section sequence whose every entry
\* has a numeric entropy other than NaN (the mean in IEEE arithmetic: nan
\* when the entries hold +Infinity and -Infinity).
C7_EntropyAggregates ==
    (/\ EntropyFeature
     /\ NumericEntropies(json_data)
     /\ NoNaN(Entropies(json_data))) =>
        EntropyAggregatesOn(Entropies(json_data))

\* entropies 3.5, 1.0 and 2: the minimum 1.0 is neither the first nor the
\* last entry
C7_Witness ==
    /\ rpc = "out"
    /\ feature = "sections_min_entropy"
    /\ json_data = SectionRecord(<< SectionEntry(PyInt(0), PyFloat(7, 2), PyInt(4096)),
                                    SectionEntry(PyInt(512), PyFloat(1, 1), PyInt(600)),
                                    SectionEntry(PyInt(1024), PyInt(2), PyFloat(601, 1)) >>)
    /\ outcome = Returned(TRUE, PyFloat(1, 1))

----------------------------------------------------------------------------
\* C8: _search_and_get(node, name) returns the value of the first key equal
\* to name in the depth-first pre-order traversal (a mapping's entries in
\* enumeration order, into a mapping-valued entry, into each mapping-typed
\* element of a sequence-valued entry in order), and not-found exactly when
\* no key that traversal reaches equals name.
C8_FirstMatchInPreOrder ==
    (rpc = "searched" /\ json_data.t = "dict") =>
        LET met == PreOrder(json_data)
        IN /\ outcome = FirstInPreOrder(json_data, feature)
           /\ outcome.status <=> \E i \in 1..Len(met) : met[i][1] = feature

\* "x" sits below the second element of a list whose first element fails
\* to match, and again as a later sibling with another value
C8_Witness ==
    /\ rpc = "searched"
    /\ feature = "x"
    /\ json_data = PyDict(<< <<"a", PyList(<< PyDict(<< <<"a", PyInt(1)>> >>),
                                              PyDict(<< <<"x", PyInt(1)>> >>) >>)>>,
                             <<"x", PyInt(2)>> >>)
    /\ outcome = Returned(TRUE, PyInt(1))

----------------------------------------------------------------------------
\* C10: for each of the fifteen specialised names the value produced is the
\* specialised extractor's result, also when the record holds a key of that
\* very name; every other name is resolved by the generic search on the
\* whole record.
SpecialisedResult(record, name) ==
    CASE name = "sections_mean_entropy" -> _get_sections_mean_entropy(record)
      [] name = "sections_min_entropy" -> _get_sections_min_entropy(record)
      [] name = "sections_max_entropy" -> _get_sections_max_entropy(record)
      [] name = "sections_mean_rawsize" -> _get_sections_mean_raw_size(record)
      [] name = "sections_min_rawsize" -> _get_sections_min_raw_size(record)
      [] name = "sections_max_rawsize" -> _get_sections_max_raw_size(record)
      [] name = "sections_mean_virtualsize" -> _get_sections_mean_virtual_size(record)
      [] name = "sections_min_virtualsize" -> _get_sections_min_virtual_size(record)
      [] name = "sections_max_virtualsize" -> _get_sections_max_virtual_size(record)
      [] name = "debug_size" -> _get_debug_size(record)
      [] name = "debug_rva" -> _get_debug_rva(record)
      [] name = "iat_rva" -> _get_iat_rva(record)
      [] name = "export_size" -> _get_export_size(record)
      [] name = "export_rva" -> _get_export_rva(record)
      [] name = "resource_size" -> _get_resource_size(record)

C10_SpecialisedBeforeGeneric ==
    rpc = "out" =>
        IF feature \in SpecialisedNames
        THEN /\ outcome = SpecialisedResult(json_data, feature)
             /\ outcome.value # Verbatim
        ELSE outcome = _search_and_get(json_data, feature)

\* the record opens with a key "iat_rva"; the value produced is entry 12's
\* virtual_address
C10_Witness ==
    /\ rpc = "out"
    /\ feature = "iat_rva"
    /\ json_data = PyDict(<< <<"iat_rva", Verbatim>> >> \o Containers)
    /\ _search_and_get(json_data, feature) = Returned(TRUE, Verbatim)
    /\ outcome = Returned(TRUE, PyInt(13))

----------------------------------------------------------------------------
\* "datadirectories" resolves to a non-empty sequence whose entry 0 is a
\* mapping with size and virtual_address
WellFormedEntryZero(record) ==
    /\ Reaches(record, "datadirectories")
    /\ LET dd == FirstMet(record, "datadirectories")
       IN /\ dd.t = "list"
          /\ Len(dd.v) > 0
          /\ dd.v[1].t = "dict"
          /\ HasKey(dd.v[1].v, "size")
          /\ HasKey(dd.v[1].v, "virtual_address")

\* C11: on a record whose "datadirectories" is a non-empty sequence with a
\* well-formed entry 0, export_rva yields entry 0's virtual_address; so
\* export_rva and export_size differ whenever entry 0's size and
\* virtual_address differ.
C11_ExportRvaReadsVirtualAddress ==
    (/\ rpc = "out"
     /\ feature = "export_rva"
     /\ WellFormedEntryZero(json_data)) =>
        /\ outcome = Returned(TRUE, TableField(json_data, 0, "virtual_address"))
        /\ (TableField(json_data, 0, "size")
                # TableField(json_data, 0, "virtual_address"))
           => outcome # _get_export_size(json_data)

====
